---- MODULE Spec2Model ----
(***************************************************************************)
(* Model of the MLB-GIFs clip lookup (src/gif_integration.py):             *)
(*   get_baseball_savant_play_video  - fetch candidates, select a play,    *)
(*                                     probe its clip URLs                 *)
(*   get_pitch_video_url             - probe the clip URLs of one pitch    *)
(*   create_gif_for_play             - orchestrator: lookup then transcode *)
(*                                                                         *)
(* Conventions.  Python None is 0 for identifiers (play_id, video_url) and *)
(* the empty tuple for URLs and results.  A text is a tuple of one-letter  *)
(* strings, so that str.lower() and the substring test `in` are computed.  *)
(* Feed entries are non-empty JSON objects with the four keys the code     *)
(* reads; a missing key is the value .get() defaults to.                   *)
(***************************************************************************)
EXTENDS Integers, Sequences, FiniteSets, TLC

\* ------------------------------------------------------------------ bounds
MaxPlays == 2          \* candidates in team_home and team_away together
MaxProbeLog == 4       \* cap on the probe log of one call (never reached)

\* ------------------------------------------------------------- input sets
NoId == 0
PlayIds == {1, 2}                       \* play_id values of the feed (UUIDs)
RequestedIds == {1}                     \* play_id argument of the lookup
Innings == {1, 2}
TargetInnings == {1}
VideoUrlIds == {0, 7}                   \* 'video_url' key: absent or a URL
CandidateEvents == { <<"x">>, <<"x", "H">> }
TargetEvents == { <<>>, <<"h">> }
Sources == {"home", "away"}
Preferences == {"home", "away", "auto", "mets", "other"}
FetchOutcomes == {"ok", "non200", "malformed", "exception"}
ProbeOutcomes == {"200", "non200", "exception"}
TranscodeOutcomes == {"ok", "failed", "exception"}

Candidates ==
    [play_id : {NoId} \cup PlayIds, events : CandidateEvents,
     inning : Innings, video_url : VideoUrlIds]

NoPlayData == [present |-> FALSE, event |-> <<>>, inning |-> 0]
PlayDatas ==
    {NoPlayData} \cup
    [present : {TRUE}, event : TargetEvents, inning : TargetInnings]

SeqsUpTo(S, n) == UNION { [1..k -> S] : k \in 0..n }

\* team_home and team_away of the payload (a missing or non-list key is an
\* empty list): every split of a candidate sequence of bounded length
Feeds ==
    { [team_home |-> SubSeq(s, 1, k), team_away |-> SubSeq(s, k + 1, Len(s))] :
        <<s, k>> \in { <<s, k>> \in SeqsUpTo(Candidates, MaxPlays) \X (0..MaxPlays) :
                        k <= Len(s) } }

\* ------------------------------------------------------------------ texts
UpperCase == <<"A", "B", "C", "D", "E", "F", "G", "H", "I", "J", "K", "L", "M", "N", "O", "P", "Q", "R", "S", "T", "U", "V", "W", "X", "Y", "Z">>

LowerCase == <<"a", "b", "c", "d", "e", "f", "g", "h", "i", "j", "k", "l", "m", "n", "o", "p", "q", "r", "s", "t", "u", "v", "w", "x", "y", "z">>

\* str.lower() on one character
Lower(c) ==
    IF \E i \in 1..26 : UpperCase[i] = c
    THEN LowerCase[CHOOSE i \in 1..26 : UpperCase[i] = c]
    ELSE c

LowerText(s) == [i \in 1..Len(s) |-> Lower(s[i])]

\* Python `sub in s` on strings
Contains(sub, s) ==
    \E k \in 0..(Len(s) - Len(sub)) :
        \A i \in 1..Len(sub) : s[k + i] = sub[i]

\* ------------------------------------------------------------------- URLs
NoUrl == <<>>

ClipUrl(source, uuid, ext) == <<"clip", source, uuid, ext>>

DirectUrl(v) == <<"direct", "", v, "">>

VideoUrlsReversed(source, uuid) ==
    << ClipUrl(source, uuid, "mp4"), ClipUrl(source, uuid, "m3u8") >>

\* the templated URLs, in probing order
VideoUrls(source, uuid) ==
    << ClipUrl(source, uuid, "m3u8"), ClipUrl(source, uuid, "mp4") >>

\* -------------------------------------------------- broadcast preference
\* _determine_broadcast_preference: homeMets / awayMets say whether
\* 'NYM' or 'METS' occurs in home_team_name / away_team_name
_determine_broadcast_preference(preference, homeMets, awayMets) ==
    IF preference \in {"home", "away"} THEN preference
    ELSE IF preference = "mets" /\ homeMets THEN "home"
    ELSE IF preference = "mets" /\ awayMets THEN "away"
    ELSE IF preference = "auto" /\ homeMets THEN "home"
    ELSE IF preference = "auto" /\ awayMets THEN "away"
    ELSE "home"

\* what the call of _determine_broadcast_preference can return, over every
\* preference argument and every pair of team names
SelectedBroadcasts ==
    { _determine_broadcast_preference(p, h, a) :
        p \in Preferences, h \in BOOLEAN, a \in BOOLEAN }

\* ---------------------------------------------------------------- matcher
\* all_plays: team_home entries tagged 'home', then team_away tagged 'away'
AllPlays(feed) ==
    [i \in 1..Len(feed.team_home) |->
        [play |-> feed.team_home[i], source |-> "home"]]
    \o
    [i \in 1..Len(feed.team_away) |->
        [play |-> feed.team_away[i], source |-> "away"]]

BroadcastIgnored(sel, source) == TRUE

\* the broadcast test of the first loop
BroadcastOk(sel, source) ==
    \/ sel = "auto"
    \/ (sel = "home" /\ source = "home")
    \/ (sel = "away" /\ source = "away")

PlayMatchesNoInning(play, pid, mpd) ==
    \/ play.play_id = pid
    \/ Contains(LowerText(mpd.event), LowerText(play.events))

\* the condition of both strict passes
PlayMatches(play, pid, mpd) ==
    \/ play.play_id = pid
    \/ (Contains(LowerText(mpd.event), LowerText(play.events))
        /\ play.inning = mpd.inning)

RECURSIVE FirstPreferred(_, _, _, _, _)
\* first loop: index of the first entry of the preferred broadcast that
\* matches, 0 when the loop ends without a break
FirstPreferred(plays, i, sel, pid, mpd) ==
    IF i > Len(plays) THEN 0
    ELSE IF BroadcastOk(sel, plays[i].source)
            /\ PlayMatches(plays[i].play, pid, mpd) THEN i
    ELSE FirstPreferred(plays, i + 1, sel, pid, mpd)

RECURSIVE FirstAny(_, _, _, _)
\* second loop: the same scan over every broadcast
FirstAny(plays, i, pid, mpd) ==
    IF i > Len(plays) THEN 0
    ELSE IF PlayMatches(plays[i].play, pid, mpd) THEN i
    ELSE FirstAny(plays, i + 1, pid, mpd)

NotFoundIgnored(t) == TRUE

\* `if not target_play`
NotFound(t) == t = 0

\* the three levels of the selection; idx = 0 is target_play None
SelectTarget(plays, sel, pid, mpd) ==
    LET p1 == IF mpd.present THEN FirstPreferred(plays, 1, sel, pid, mpd)
              ELSE 0
        p2 == IF mpd.present /\ NotFound(p1) THEN FirstAny(plays, 1, pid, mpd)
              ELSE 0
        t2 == IF mpd.present /\ NotFound(p1) THEN p2 ELSE p1
        l2 == IF mpd.present /\ NotFound(p1)
              THEN (IF p2 # 0 THEN "any" ELSE "none")
              ELSE (IF p1 # 0 THEN "preferred" ELSE "none")
    IN  IF NotFound(t2) /\ Len(plays) > 0
        THEN [idx |-> 1, level |-> "first"]
        ELSE [idx |-> t2, level |-> l2]

\* ------------------------------------------------------------------ fetch
FetchFailedOnlyOnException(outcome) == outcome \in {"malformed", "exception"}

\* `response.status_code != 200`, or requests.get / response.json() raised
FetchFailed(outcome) == outcome # "ok"

\* ---------------------------------------------------------------- resolver
ProbeAcceptsAnyResponse(status) == status # "exception"

\* `test_response.status_code == 200`
ProbeAccepts(status) == status = "200"

AfterFailedProbeRetry(i) == i

AfterFailedProbeBreak(i) == i + 2

\* a failed probe of the for loop moves on to the next template
AfterFailedProbe(i) == i + 1

\* ------------------------------------------------------------------ state
VARIABLES
    pc,                 \* position of the running call: idle, fetch, probe,
                        \* orchestrate, transcode, done
    op,                 \* the entry point that was called
    play_id,            \* play_id argument
    mlb_play_data,      \* mlb_play_data argument (present = FALSE: None)
    fetch_status,       \* how the GET of the feed ended, "none" before it
    all_plays,          \* the flattened candidate list of the payload
    selected_broadcast, \* result of _determine_broadcast_preference
    target_play,        \* index in all_plays of the selected entry, 0 = None
    level,              \* which level of the selection produced target_play
    video_urls,         \* the URLs the resolver is going through
    next_url,           \* position of the resolver in video_urls
    templated,          \* TRUE: video_urls are the two templates
    probes,             \* HEAD probes issued by this call, in order
    netCalls,           \* HTTP requests issued by this call
    calls,              \* collaborator methods the orchestrator has called
    result              \* return value: a URL, a file path or NoUrl (None)

lookupVars ==
    << pc, op, play_id, mlb_play_data, fetch_status, all_plays,
       selected_broadcast, target_play, level, video_urls, next_url,
       templated, probes, netCalls, calls, result >>

inputVars == << play_id, mlb_play_data >>
matchVars == << all_plays, selected_broadcast, target_play, level >>
resolverVars == << video_urls, next_url, templated >>

VARIABLES
    m_pc,                \* matcher called on its own: idle, matched, scored
    is_contact_pitch,    \* per entry of all_plays: the pitch put in play
    highlights,          \* highlights argument of find_matching_highlight
    highlight_play_data, \* its mlb_play_data argument
    best_highlight       \* its return value: index in highlights, 0 = None

matcherVars ==
    << m_pc, is_contact_pitch, highlights, highlight_play_data,
       best_highlight >>

VARIABLES
    t_pc,               \* mets_hr_tracker: none (None), running, stopped
    monitoring_active,  \* MetsHRBackgroundTracker.monitoring_active
    processed_plays,    \* set of play ids already detected
    home_run_queue,     \* home runs waiting for the processing thread
    cycle_count,        \* monitoring cycles run so far
    game_plays,         \* Mets home runs in the play list of the live game
    gif_files,          \* home runs with a clip file of theirs in temp_dir
    recent_home_runs,   \* home runs sent, for the dashboard
    evicted,            \* ids the last save_processed_plays dropped
    enqueued,           \* per home run: how often a cycle has queued it
    last_attempt        \* the attempt the processing thread made last

trackerVars ==
    << t_pc, monitoring_active, processed_plays, home_run_queue, cycle_count,
       game_plays, gif_files, recent_home_runs, evicted, enqueued,
       last_attempt >>

VARIABLES
    x_pc,               \* download_and_convert_to_gif: idle, head, download,
                        \* ffprobe, encode, reencode, done
    is_hls,             \* video_url.endswith('.m3u8')
    highlight_duration, \* the highlight_duration argument, split at ':'
    gif_cmd,            \* argument list of the first ffmpeg run
    temp_video,         \* the downloaded temp_video file exists
    output_exists,      \* output_path exists
    file_size,          \* size of output_path in bytes
    ffmpeg_runs,        \* ffmpeg runs of this call
    x_result            \* return value: "none" before the return

transcodeVars ==
    << x_pc, is_hls, highlight_duration, gif_cmd, temp_video, output_exists,
       file_size, ffmpeg_runs, x_result >>

VARIABLES
    g_pc,               \* telegram_bot: unloaded, then idle, post, done of
                        \* a call of send_gif_notification
    bot_token,          \* TELEGRAM_BOT_TOKEN: "none" (unset), "" or a token
    chat_id,            \* TELEGRAM_CHAT_ID, likewise
    play_data,          \* the fields of play_data that shape the message
    gif_path,           \* "none" (None), "missing" or "exists"
    message,            \* the text built for the play
    endpoint,           \* Bot API method posted to
    requests,           \* HTTP requests issued by this call
    response,           \* outcome of the POST
    g_result            \* return value: "none" before the return

telegramVars ==
    << g_pc, bot_token, chat_id, play_data, gif_path, message, endpoint,
       requests, response, g_result >>

VARIABLES
    games,              \* dashboard.games: game id -> [plays, last_updated]
    dashboard_plays,    \* dashboard.processed_plays: <<game id, atBatIndex>>
    now,                \* datetime.now() as a count of ticks
    update_began,       \* the tick at which the last update_games began
    updates,            \* calls of update_games so far
    monitoring,         \* dashboard.monitoring
    loop_pc             \* where each thread of _monitoring_loop is

dashboardVars ==
    << games, dashboard_plays, now, update_began, updates, monitoring,
       loop_pc >>

VARIABLES
    mets_hr_tracker,    \* the module global: "None" or "tracker"
    monitor_pc,         \* where the thread of monitor_mets_home_runs is
    hr_pc,              \* where the thread of process_home_run_queue is
    recent_hrs,         \* local list of save_processed_plays
    sent_home_run,      \* play id of the home run the processing thread sent
    appended            \* play ids line 466 has appended to recent_home_runs

threadVars ==
    << mets_hr_tracker, monitor_pc, hr_pc, recent_hrs, sent_home_run,
       appended >>

\* the state of the dashboard and of the threads of the service
serviceVars == << dashboardVars, threadVars >>

\* everything outside the lookup state machine
laterVars ==
    << matcherVars, trackerVars, transcodeVars, telegramVars, serviceVars >>

outsideMatcher == << trackerVars, transcodeVars, telegramVars, serviceVars >>
outsideTracker ==
    << lookupVars, matcherVars, transcodeVars, telegramVars, serviceVars >>
outsideTranscode ==
    << lookupVars, matcherVars, trackerVars, telegramVars, serviceVars >>
outsideTelegram ==
    << lookupVars, matcherVars, trackerVars, transcodeVars, serviceVars >>
outsideDashboard ==
    << lookupVars, matcherVars, trackerVars, transcodeVars, telegramVars,
       threadVars >>
outsideThreads ==
    << lookupVars, matcherVars, transcodeVars, telegramVars, dashboardVars >>

NoHighlightPlayData ==
    [present |-> FALSE, event |-> <<>>, description |-> <<>>,
     batter |-> <<>>, pitcher |-> <<>>]

MatcherInit ==
    /\ m_pc = "idle"
    /\ is_contact_pitch = <<>>
    /\ highlights = <<>>
    /\ highlight_play_data = NoHighlightPlayData
    /\ best_highlight = 0

MaxCycles == 2         \* monitoring cycles of one run of the tracker

ProcessedLimit == 200  \* `if len(recent_plays) > 200`
MaxAttempts == 3       \* `if home_run.attempts >= 3`

\* ids found in processed_mets_hrs.pkl: plays of earlier games
LoadedIds == 1..ProcessedLimit
LoadedCounts == {0, ProcessedLimit}

\* play ids of the home runs of the live game
HomeRunIds == {ProcessedLimit + 1, ProcessedLimit + 2}

NoAttempt == [play_id |-> NoId, attempts |-> 0, gif |-> FALSE, success |-> FALSE]

\* `mets_hr_tracker = None`: no tracker has been constructed
TrackerInit ==
    /\ t_pc = "none"
    /\ monitoring_active = FALSE
    /\ processed_plays = {}
    /\ home_run_queue = <<>>
    /\ cycle_count = 0
    /\ game_plays = {}
    /\ gif_files = {}
    /\ recent_home_runs = <<>>
    /\ evicted = {}
    /\ enqueued = [id \in HomeRunIds |-> 0]
    /\ last_attempt = NoAttempt

NoPlayFields ==
    [pitch_details |-> FALSE, description |-> FALSE, impact_score |-> "number"]

TranscodeInit ==
    /\ x_pc = "idle"
    /\ is_hls = FALSE
    /\ highlight_duration = <<>>
    /\ gif_cmd = <<>>
    /\ temp_video = FALSE
    /\ output_exists = FALSE
    /\ file_size = 0
    /\ ffmpeg_runs = 0
    /\ x_result = "none"

\* telegram_bot has not been imported: telegram_client does not exist yet
TelegramInit ==
    /\ g_pc = "unloaded"
    /\ bot_token = "none"
    /\ chat_id = "none"
    /\ play_data = NoPlayFields
    /\ gif_path = "none"
    /\ message = <<>>
    /\ endpoint = "none"
    /\ requests = 0
    /\ response = "none"
    /\ g_result = "none"

MaxLoops == 2          \* threads of _monitoring_loop started in one run

Loops == 1..MaxLoops

\* ManualGIFDashboard.__init__: `self.games = {}`,
\* `self.processed_plays = set()`, and start_monitoring() has started the
\* first thread of _monitoring_loop
DashboardInit ==
    /\ games = [game_id \in {} |-> 0]
    /\ dashboard_plays = {}
    /\ now = 0
    /\ update_began = 0
    /\ updates = 0
    /\ monitoring = TRUE
    /\ loop_pc = [t \in Loops |-> IF t = 1 THEN "test" ELSE "unborn"]

\* `mets_hr_tracker = None`: no thread of the tracker exists
ThreadInit ==
    /\ mets_hr_tracker = "None"
    /\ monitor_pc = "unborn"
    /\ hr_pc = "unborn"
    /\ recent_hrs = << >>
    /\ sent_home_run = NoId
    /\ appended = {}

ServiceInit == DashboardInit /\ ThreadInit

LaterInit ==
    MatcherInit /\ TrackerInit /\ TranscodeInit /\ TelegramInit /\ ServiceInit

LookupInit ==
    /\ pc = "idle"
    /\ op = "none"
    /\ play_id = NoId
    /\ mlb_play_data = NoPlayData
    /\ fetch_status = "none"
    /\ all_plays = <<>>
    /\ selected_broadcast = "none"
    /\ target_play = 0
    /\ level = "none"
    /\ video_urls = <<>>
    /\ next_url = 0
    /\ templated = FALSE
    /\ probes = <<>>
    /\ netCalls = 0
    /\ calls = {}
    /\ result = NoUrl

Init == LookupInit /\ LaterInit

\* where a lookup hands its return value: to its caller, or to the
\* orchestrator that called it
Returned(o) == IF o = "create_gif_for_play" THEN "orchestrate" ELSE "done"

FilePath(url) == <<"file", url[2], url[3], url[4]>>

\* ---------------------------------------------------------------- actions
\* get_baseball_savant_play_video(game_id, play_id, mlb_play_data, pref):
\* up to the GET of the game feed
get_baseball_savant_play_video ==
    /\ pc = "idle"
    /\ \E pid \in RequestedIds, mpd \in PlayDatas :
        /\ play_id' = pid
        /\ mlb_play_data' = mpd
    /\ op' = "get_baseball_savant_play_video"
    /\ pc' = "fetch"
    /\ UNCHANGED << fetch_status, matchVars, resolverVars, probes, netCalls, calls, result >>
    /\ UNCHANGED laterVars

\* create_gif_for_play: its first statement is the primary lookup
create_gif_for_play ==
    /\ pc = "idle"
    /\ \E pid \in RequestedIds, mpd \in PlayDatas :
        /\ play_id' = pid
        /\ mlb_play_data' = mpd
    /\ op' = "create_gif_for_play"
    /\ calls' = {"get_baseball_savant_play_video"}
    /\ pc' = "fetch"
    /\ UNCHANGED << fetch_status, matchVars, resolverVars, probes, netCalls, result >>
    /\ UNCHANGED laterVars

\* the GET answers (or fails); on a payload the whole selection runs and the
\* resolver is set up
FeedResponse ==
    /\ pc = "fetch"
    /\ netCalls' = netCalls + 1
    /\ \E outcome \in FetchOutcomes :
        /\ fetch_status' = outcome
        /\ IF FetchFailed(outcome)
           THEN /\ result' = NoUrl
                /\ pc' = Returned(op)
                /\ UNCHANGED << matchVars, resolverVars >>
           ELSE \E feed \in Feeds, sel \in SelectedBroadcasts :
                LET plays == AllPlays(feed)
                    t == SelectTarget(plays, sel, play_id, mlb_play_data)
                    source == plays[t.idx].source
                    play == plays[t.idx].play
                IN  /\ all_plays' = plays
                    /\ selected_broadcast' = sel
                    /\ target_play' = t.idx
                    /\ level' = t.level
                    /\ IF t.idx = 0
                       THEN /\ result' = NoUrl
                            /\ pc' = Returned(op)
                            /\ UNCHANGED resolverVars
                       ELSE IF play.video_url # 0
                       THEN /\ video_urls' = << DirectUrl(play.video_url) >>
                            /\ next_url' = 1
                            /\ templated' = FALSE
                            /\ pc' = "probe"
                            /\ UNCHANGED result
                       ELSE IF play.play_id # NoId
                       THEN /\ video_urls' = VideoUrls(source, play.play_id)
                            /\ next_url' = 1
                            /\ templated' = TRUE
                            /\ pc' = "probe"
                            /\ UNCHANGED result
                       ELSE /\ result' = NoUrl
                            /\ pc' = Returned(op)
                            /\ UNCHANGED resolverVars
    /\ UNCHANGED << op, inputVars, probes, calls >>
    /\ UNCHANGED laterVars

\* get_pitch_video_url(game_id, play_id, team_batting)
get_pitch_video_url ==
    /\ pc = "idle"
    /\ op' = "get_pitch_video_url"
    /\ \E pid \in {NoId} \cup PlayIds, team_batting \in Sources :
        /\ play_id' = pid
        /\ IF pid = NoId
           THEN /\ result' = NoUrl
                /\ pc' = "done"
                /\ UNCHANGED resolverVars
           ELSE /\ video_urls' = VideoUrls(team_batting, pid)
                /\ next_url' = 1
                /\ templated' = TRUE
                /\ pc' = "probe"
                /\ UNCHANGED result
    /\ UNCHANGED << mlb_play_data, fetch_status, matchVars, probes, netCalls, calls >>
    /\ UNCHANGED laterVars

\* one requests.head of the resolver and what the code does with its answer
HeadProbe ==
    /\ pc = "probe"
    /\ Len(probes) < MaxProbeLog
    /\ \E status \in ProbeOutcomes :
        LET url == video_urls[next_url]
            n == AfterFailedProbe(next_url)
        IN  /\ probes' = Append(probes, [url |-> url, status |-> status])
            /\ netCalls' = netCalls + 1
            /\ IF ProbeAccepts(status)
               THEN /\ result' = url
                    /\ pc' = Returned(op)
                    /\ UNCHANGED next_url
               ELSE IF templated /\ n <= Len(video_urls)
               THEN /\ next_url' = n
                    /\ UNCHANGED << result, pc >>
               ELSE /\ result' = NoUrl
                    /\ pc' = Returned(op)
                    /\ UNCHANGED next_url
    /\ UNCHANGED << op, inputVars, fetch_status, matchVars, video_urls, templated, calls >>
    /\ UNCHANGED laterVars

\* create_gif_for_play after the primary lookup returned
AfterPrimaryLookup ==
    /\ pc = "orchestrate"
    /\ IF result = NoUrl
       THEN /\ pc' = "done"
            /\ UNCHANGED calls
       ELSE /\ pc' = "transcode"
            /\ \E output_format \in {"gif", "mp4"} :
                calls' = calls \cup
                    {IF output_format = "mp4"
                     THEN "download_and_convert_to_video"
                     ELSE "download_and_convert_to_gif"}
    /\ UNCHANGED << op, inputVars, fetch_status, matchVars, resolverVars,
                    probes, netCalls, result >>
    /\ UNCHANGED laterVars

\* the transcoder returns; `success and output_path.exists()`
Transcode ==
    /\ pc = "transcode"
    /\ netCalls' = netCalls + 1
    /\ \E outcome \in TranscodeOutcomes :
        result' = IF outcome = "ok" THEN FilePath(result) ELSE NoUrl
    /\ pc' = "done"
    /\ UNCHANGED << op, inputVars, fetch_status, matchVars, resolverVars, probes, calls >>
    /\ UNCHANGED laterVars

\* the caller takes the return value; the next call starts afresh
Return ==
    /\ pc = "done"
    /\ pc' = "idle"
    /\ op' = "none"
    /\ play_id' = NoId
    /\ mlb_play_data' = NoPlayData
    /\ fetch_status' = "none"
    /\ all_plays' = <<>>
    /\ selected_broadcast' = "none"
    /\ target_play' = 0
    /\ level' = "none"
    /\ video_urls' = <<>>
    /\ next_url' = 0
    /\ templated' = FALSE
    /\ probes' = <<>>
    /\ netCalls' = 0
    /\ calls' = {}
    /\ result' = NoUrl
    /\ UNCHANGED laterVars

Next ==
    \/ get_baseball_savant_play_video
    \/ create_gif_for_play
    \/ get_pitch_video_url
    \/ FeedResponse
    \/ HeadProbe
    \/ AfterPrimaryLookup
    \/ Transcode
    \/ Return

vars == << lookupVars, laterVars >>

Spec == Init /\ [][Next]_vars

\* ------------------------------------------------------ highlight matcher
MaxHighlights == 3     \* highlights passed to find_matching_highlight

NullText == << "null" >>               \* a JSON null where a text is expected

HighlightTitles ==
    { <<"S", "m", "i", "t", "h", " ", "h", "o", "m", "e", "r", "s">>,
      <<"J", "o", "n", "e", "s", " ", "w", "a", "l", "k", "s", " ", "S", "m", "i", "t", "h">>,
      <<"R", "e", "c", "a", "p">>,
      NullText }
HighlightDescriptions == { <<>>, <<"B", "B">> }
HighlightEvents == { <<"W", "a", "l", "k">>, <<"H", "o", "m", "e", " ", "R", "u", "n">>, <<"B", "u", "n", "t">> }
HighlightPlayDescriptions == { <<>>, <<"S", "m", "i", "t", "h", " ", "w", "a", "l", "k", "s">> }
BatterNames == { <<>>, <<"B", "o", "b", " ", "S", "m", "i", "t", "h">> }
PitcherNames == { <<>>, <<"A", "l", " ", "J", "o", "n", "e", "s">> }

Highlights == [title : HighlightTitles, description : HighlightDescriptions]

HighlightPlayDatas ==
    {NoHighlightPlayData} \cup
    [present : {TRUE}, event : HighlightEvents,
     description : HighlightPlayDescriptions,
     batter : BatterNames, pitcher : PitcherNames]

\* the event_keywords table
event_keywords ==
    << [key |-> <<"h", "o", "m", "e", "_", "r", "u", "n">>,
        keywords |-> << <<"h", "o", "m", "e", "r">>, <<"h", "o", "m", "e", " ", "r", "u", "n">>, <<"h", "r">> >>],
       [key |-> <<"d", "o", "u", "b", "l", "e">>,
        keywords |-> << <<"d", "o", "u", "b", "l", "e">> >>],
       [key |-> <<"t", "r", "i", "p", "l", "e">>,
        keywords |-> << <<"t", "r", "i", "p", "l", "e">> >>],
       [key |-> <<"s", "i", "n", "g", "l", "e">>,
        keywords |-> << <<"s", "i", "n", "g", "l", "e">> >>],
       [key |-> <<"h", "i", "t", "_", "b", "y", "_", "p", "i", "t", "c", "h">>,
        keywords |-> << <<"h", "i", "t", " ", "b", "y", " ", "p", "i", "t", "c", "h">>, <<"h", "b", "p">> >>],
       [key |-> <<"w", "a", "l", "k">>,
        keywords |-> << <<"w", "a", "l", "k">>, <<"b", "b">> >>],
       [key |-> <<"s", "t", "r", "i", "k", "e", "o", "u", "t">>,
        keywords |-> << <<"s", "t", "r", "i", "k", "e", "o", "u", "t">>, <<"s", "t", "r", "i", "k", "e", "s", " ", "o", "u", "t">>, <<"k">> >>],
       [key |-> <<"f", "l", "y", "o", "u", "t">>,
        keywords |-> << <<"f", "l", "y", "o", "u", "t">>, <<"f", "l", "i", "e", "s", " ", "o", "u", "t">> >>],
       [key |-> <<"g", "r", "o", "u", "n", "d", "o", "u", "t">>,
        keywords |-> << <<"g", "r", "o", "u", "n", "d", "o", "u", "t">>, <<"g", "r", "o", "u", "n", "d", "s", " ", "o", "u", "t">> >>],
       [key |-> <<"l", "i", "n", "e", "o", "u", "t">>,
        keywords |-> << <<"l", "i", "n", "e", "o", "u", "t">>, <<"l", "i", "n", "e", "s", " ", "o", "u", "t">> >>],
       [key |-> <<"d", "o", "u", "b", "l", "e", "_", "p", "l", "a", "y">>,
        keywords |-> << <<"d", "o", "u", "b", "l", "e", " ", "p", "l", "a", "y">>, <<"d", "p">> >>] >>

Range(f) == { f[i] : i \in DOMAIN f }

RECURSIVE Split(_)
\* str.split(): the words between runs of blanks
Split(s) ==
    IF s = <<>> THEN <<>>
    ELSE IF Head(s) = " " THEN Split(Tail(s))
    ELSE LET blanks == { i \in DOMAIN s : s[i] = " " }
             n == IF blanks = {} THEN Len(s) + 1
                  ELSE CHOOSE i \in blanks : \A j \in blanks : i <= j
         IN  << SubSeq(s, 1, n - 1) >> \o Split(SubSeq(s, n + 1, Len(s)))

\* `name and any(part in title for part in name.split())`
AnyNameIn(name, title) ==
    /\ name # <<>>
    /\ \E part \in Range(Split(name)) : Contains(part, title)

\* a highlight whose title or description is null makes .lower() raise
Raises(hs) ==
    \E i \in DOMAIN hs : hs[i].title = NullText \/ hs[i].description = NullText

\* the score of one highlight against the play
Score(h, pd) ==
    LET title == LowerText(h.title)
        description == LowerText(h.description)
        play_event == LowerText(pd.event)
        desc_words == Split(LowerText(pd.description))
    IN  (IF AnyNameIn(LowerText(pd.batter), title) THEN 100 ELSE 0)
      + (IF \E e \in Range(event_keywords) :
                /\ e.key = play_event
                /\ \E keyword \in Range(e.keywords) :
                      Contains(keyword, title) \/ Contains(keyword, description)
         THEN 50 ELSE 0)
      + (IF AnyNameIn(LowerText(pd.pitcher), title) THEN 25 ELSE 0)
      + 10 * Cardinality({ i \in DOMAIN desc_words :
                             /\ Len(desc_words[i]) > 3
                             /\ Contains(desc_words[i], title) })

GoesBeforeOrEqual(a, b) == a >= b

\* in a descending stable sort an entry passes those with a smaller key only
GoesBefore(a, b) == a > b

\* insert entry e = <<score, index>> in a list sorted by descending score
InsertSorted(sorted, e) ==
    LET ahead == { i \in DOMAIN sorted : ~ GoesBefore(e[1], sorted[i][1]) }
        k == IF ahead = {} THEN 0
             ELSE CHOOSE i \in ahead : \A j \in ahead : j <= i
    IN  SubSeq(sorted, 1, k) \o << e >> \o SubSeq(sorted, k + 1, Len(sorted))

RECURSIVE SortMatches(_)
\* best_matches.sort(key=lambda x: x[0], reverse=True)
SortMatches(matches) ==
    IF matches = <<>> THEN <<>>
    ELSE InsertSorted(SortMatches(SubSeq(matches, 1, Len(matches) - 1)),
                      matches[Len(matches)])

RECURSIVE BestMatches(_, _, _)
\* the (score, highlight) pairs with a positive score, in list order
BestMatches(hs, pd, i) ==
    IF i > Len(hs) THEN <<>>
    ELSE (IF Score(hs[i], pd) > 0 THEN << <<Score(hs[i], pd), i>> >>
          ELSE <<>>)
         \o BestMatches(hs, pd, i + 1)

NoStrongMatchNone(hs) == 0

\* `return highlights[0]` when nothing scored
NoStrongMatch(hs) == 1

\* find_matching_highlight as a function: index of the returned highlight
FindMatchingHighlight(hs, pd) ==
    IF hs = <<>> THEN 0
    ELSE IF ~ pd.present THEN 1
    ELSE IF Raises(hs) THEN 1
    ELSE LET best_matches == SortMatches(BestMatches(hs, pd, 1))
         IN  IF best_matches # <<>> THEN best_matches[1][2]
             ELSE NoStrongMatch(hs)

\* find_matching_highlight(highlights, mlb_play_data)
find_matching_highlight ==
    /\ m_pc = "idle"
    /\ \E hs \in SeqsUpTo(Highlights, MaxHighlights), pd \in HighlightPlayDatas :
        /\ highlights' = hs
        /\ highlight_play_data' = pd
        /\ best_highlight' = FindMatchingHighlight(hs, pd)
    /\ m_pc' = "highlight"
    /\ UNCHANGED << is_contact_pitch, lookupVars, outsideMatcher >>

\* the matching loops of get_baseball_savant_play_video on a feed that was
\* fetched; is_contact_pitch says of each entry of the feed whether it is the
\* pitch put in play (the loops read no such field)
MatchPlay ==
    /\ m_pc = "idle"
    /\ \E feed \in Feeds, sel \in SelectedBroadcasts,
          pid \in RequestedIds \cup {NoId}, mpd \in PlayDatas :
        LET plays == AllPlays(feed)
            t == SelectTarget(plays, sel, pid, mpd)
        IN  /\ play_id' = pid
            /\ mlb_play_data' = mpd
            /\ all_plays' = plays
            /\ selected_broadcast' = sel
            /\ target_play' = t.idx
            /\ level' = t.level
            /\ \E flags \in [DOMAIN plays -> BOOLEAN] :
                  is_contact_pitch' = flags
    /\ m_pc' = "savant"
    /\ UNCHANGED << pc, op, fetch_status, resolverVars, probes, netCalls,
                    calls, result >>
    /\ UNCHANGED << highlights, highlight_play_data, best_highlight >>
    /\ UNCHANGED outsideMatcher

MatchReturn ==
    /\ m_pc # "idle"
    /\ m_pc' = "idle"
    /\ is_contact_pitch' = <<>>
    /\ highlights' = <<>>
    /\ highlight_play_data' = NoHighlightPlayData
    /\ best_highlight' = 0
    /\ play_id' = NoId
    /\ mlb_play_data' = NoPlayData
    /\ all_plays' = <<>>
    /\ selected_broadcast' = "none"
    /\ target_play' = 0
    /\ level' = "none"
    /\ UNCHANGED << pc, op, fetch_status, resolverVars, probes, netCalls,
                    calls, result >>
    /\ UNCHANGED outsideMatcher

NextMatch ==
    \/ find_matching_highlight
    \/ MatchPlay
    \/ MatchReturn

SpecMatch == Init /\ [][NextMatch]_vars

\* ---------------------------------------------------- Mets home-run tracker
RECURSIVE InGameOrder(_)
\* the plays of a set in the order of the play list
InGameOrder(S) ==
    IF S = {} THEN <<>>
    ELSE LET first == CHOOSE x \in S : \A y \in S : x <= y
         IN  << first >> \o InGameOrder(S \ {first})

\* what `set(list(recent_plays)[-200:])` may keep: a set of strings iterates
\* in hash order, so the slice keeps any ProcessedLimit of the ids. The loaded
\* ids are alike (none is in the play list again), so of them the lowest
\* numbered stand for the ones kept.
Keeps(S) ==
    IF Cardinality(S) <= ProcessedLimit THEN {S}
    ELSE LET k == Cardinality(S) - ProcessedLimit
             new == S \ LoadedIds
             old == S \cap LoadedIds
             drops == { E \in SUBSET new :
                          /\ Cardinality(E) <= k
                          /\ k - Cardinality(E) <= Cardinality(old) }
         IN  { (new \ E) \cup
               { id \in old : id <= Cardinality(old) - (k - Cardinality(E)) } :
               E \in drops }

NextAttemptsStuck(attempts) == attempts

\* `home_run.attempts += 1`
NextAttempts(attempts) == attempts + 1

RequeueNever(attempts) == FALSE

\* `if home_run.attempts < 3` after a failed send
Requeue(attempts) == attempts < MaxAttempts

\* start_mets_hr_tracker: constructs the tracker, which loads the processed
\* plays of the pickle file, and starts monitor_mets_home_runs
start_mets_hr_tracker ==
    /\ t_pc = "none"
    /\ \E n \in LoadedCounts : processed_plays' = 1..n
    /\ t_pc' = "running"
    /\ monitoring_active' = TRUE
    /\ UNCHANGED << home_run_queue, cycle_count, game_plays, gif_files,
                    recent_home_runs, evicted, enqueued, last_attempt >>
    /\ UNCHANGED outsideTracker

\* a Mets batter homers: the play joins the play list of the live game
HomeRun ==
    /\ \E id \in HomeRunIds \ game_plays :
          /\ \A earlier \in HomeRunIds : earlier < id => earlier \in game_plays
          /\ game_plays' = game_plays \cup {id}
    /\ UNCHANGED << t_pc, monitoring_active, processed_plays, home_run_queue,
                    cycle_count, gif_files, recent_home_runs, evicted,
                    enqueued, last_attempt >>
    /\ UNCHANGED outsideTracker

\* one pass of the loop of monitor_mets_home_runs: scan the play list, mark
\* and queue the home runs is_mets_home_run returns, save_processed_plays
monitor_mets_home_runs ==
    /\ t_pc = "running"
    /\ monitoring_active
    /\ cycle_count < MaxCycles
    /\ cycle_count' = cycle_count + 1
    /\ LET new_hrs == game_plays \ processed_plays
           marked == processed_plays \cup new_hrs
           queued == InGameOrder(new_hrs)
       IN  /\ home_run_queue' = home_run_queue \o
                 [i \in 1..Len(queued) |-> [play_id |-> queued[i], attempts |-> 0]]
           /\ enqueued' = [id \in HomeRunIds |->
                              IF id \in new_hrs THEN enqueued[id] + 1
                              ELSE enqueued[id]]
           /\ \E kept \in Keeps(marked) :
                 /\ processed_plays' = kept
                 /\ evicted' = marked \ kept
    /\ UNCHANGED << t_pc, monitoring_active, game_plays, gif_files,
                    recent_home_runs, last_attempt >>
    /\ UNCHANGED outsideTracker

\* one pass of the loop of process_home_run_queue with a home run waiting:
\* gif says whether create_gif_for_play returned a file, success what
\* send_gif_notification returned
process_home_run_queue ==
    /\ t_pc = "running"
    /\ monitoring_active
    /\ home_run_queue # <<>>
    /\ LET home_run == Head(home_run_queue)
           id == home_run.play_id
           attempts == NextAttempts(home_run.attempts)
       IN  IF home_run.attempts >= MaxAttempts
           THEN /\ home_run_queue' = Tail(home_run_queue)
                /\ UNCHANGED << gif_files, recent_home_runs, last_attempt >>
           ELSE \E gif \in BOOLEAN, success \in BOOLEAN :
                /\ last_attempt' = [play_id |-> id, attempts |-> attempts,
                                    gif |-> gif, success |-> success]
                /\ IF success
                   THEN /\ recent_home_runs' = Append(recent_home_runs, id)
                        /\ gif_files' = gif_files
                        /\ home_run_queue' = Tail(home_run_queue)
                   ELSE /\ recent_home_runs' = recent_home_runs
                        /\ gif_files' = IF gif THEN gif_files \cup {id}
                                        ELSE gif_files
                        /\ home_run_queue' =
                              IF Requeue(attempts)
                              THEN Append(Tail(home_run_queue),
                                          [play_id |-> id, attempts |-> attempts])
                              ELSE Tail(home_run_queue)
    /\ UNCHANGED << t_pc, monitoring_active, processed_plays, cycle_count,
                    game_plays, evicted, enqueued >>
    /\ UNCHANGED outsideTracker

\* stop_mets_hr_tracker: stop_monitoring, then the global is set to None
stop_mets_hr_tracker ==
    /\ t_pc = "running"
    /\ monitoring_active' = FALSE
    /\ t_pc' = "stopped"
    /\ UNCHANGED << processed_plays, home_run_queue, cycle_count, game_plays,
                    gif_files, recent_home_runs, evicted, enqueued,
                    last_attempt >>
    /\ UNCHANGED outsideTracker

NextTracker ==
    \/ start_mets_hr_tracker
    \/ HomeRun
    \/ monitor_mets_home_runs
    \/ process_home_run_queue
    \/ stop_mets_hr_tracker

SpecTracker == Init /\ [][NextTracker]_vars

\* -------------------------------------------------------------- transcoder
MB == 1024 * 1024

\* `if file_size > 50 * 1024 * 1024`
SizeLimit == 50 * MB

\* sizes ffmpeg may leave in output_path
FileSizes == {10 * MB, SizeLimit, SizeLimit + 1, 60 * MB}

MaxDuration == 15      \* `duration_seconds <= 15`

Bad == -1              \* a part of the duration text that int() rejects

\* highlight_duration split at ':'; <<>> is None
HighlightDurations ==
    { <<>>, <<0, 0, 8>>, <<0, 15>>, <<0, 16>>, <<0>>, <<12>>, <<Bad>>,
      <<1, 2, 3, 4>> }

DownloadOutcomes == {"ok", "too_small", "http_error", "exception"}
FfprobeOutcomes == {"valid", "invalid", "exception"}
FfmpegOutcomes == {"ok", "no_output", "timeout", "error"}

NoSeconds == [known |-> FALSE, seconds |-> 0]

\* the parse of highlight_duration into duration_seconds
ParseDuration(hd) ==
    IF hd = <<>> THEN NoSeconds
    ELSE IF Len(hd) = 3
    THEN IF \E i \in 1..3 : hd[i] = Bad THEN NoSeconds
         ELSE [known |-> TRUE, seconds |-> hd[1] * 3600 + hd[2] * 60 + hd[3]]
    ELSE IF Len(hd) = 2
    THEN IF \E i \in 1..2 : hd[i] = Bad THEN NoSeconds
         ELSE [known |-> TRUE, seconds |-> hd[1] * 60 + hd[2]]
    ELSE IF Len(hd) = 1
    THEN IF hd[1] = Bad THEN NoSeconds
         ELSE [known |-> TRUE, seconds |-> hd[1]]
    ELSE NoSeconds

\* `if duration_seconds and duration_seconds <= 15`
Override(d) == d.known /\ d.seconds # 0 /\ d.seconds <= MaxDuration

HlsCmd ==
    << "ffmpeg", "-user_agent", "Mozilla/5.0", "-referer",
       "https://www.mlb.com/", "-headers", "Accept", "-i", "video_url",
       "-t", "10", "-vf", "fps=24,scale=1080", "-loop", "0", "-y",
       "output_path" >>

DirectCmd ==
    << "ffmpeg", "-i", "temp_video", "-t", "10", "-vf", "fps=24,scale=1080",
       "-loop", "0", "-y", "output_path" >>

\* gif_cmd[5] and gif_cmd[3] of the lists, which Python counts from 0
OverrideIndex(hls) == IF hls THEN 5 + 1 ELSE 3 + 1

\* the argument list the first ffmpeg run gets
GifCmd(hls, hd) ==
    LET base == IF hls THEN HlsCmd ELSE DirectCmd
        d == ParseDuration(hd)
    IN  IF Override(d)
        THEN [base EXCEPT ![OverrideIndex(hls)] = ToString(d.seconds)]
        ELSE base

\* `if file_size > 50 * 1024 * 1024` after the first ffmpeg run
TooLarge(size) == size > SizeLimit

\* download_and_convert_to_gif(video_url, output_path, highlight_duration)
download_and_convert_to_gif ==
    /\ x_pc = "idle"
    /\ \E hls \in BOOLEAN, hd \in HighlightDurations :
        /\ is_hls' = hls
        /\ highlight_duration' = hd
        /\ x_pc' = IF hls THEN "head" ELSE "download"
    /\ UNCHANGED << gif_cmd, temp_video, output_exists, file_size, ffmpeg_runs,
                    x_result >>
    /\ UNCHANGED outsideTranscode

\* the requests.head test of the HLS stream: its outcome is only logged
HlsTest ==
    /\ x_pc = "head"
    /\ gif_cmd' = GifCmd(is_hls, highlight_duration)
    /\ x_pc' = "encode"
    /\ UNCHANGED << is_hls, highlight_duration, temp_video, output_exists,
                    file_size, ffmpeg_runs, x_result >>
    /\ UNCHANGED outsideTranscode

\* requests.get of a direct video file into temp_video; the finally block
\* unlinks temp_video on every return
Download ==
    /\ x_pc = "download"
    /\ \E outcome \in DownloadOutcomes :
        IF outcome = "ok"
        THEN /\ temp_video' = TRUE
             /\ x_pc' = "ffprobe"
             /\ UNCHANGED x_result
        ELSE /\ temp_video' = FALSE
             /\ x_result' = "False"
             /\ x_pc' = "done"
    /\ UNCHANGED << is_hls, highlight_duration, gif_cmd, output_exists,
                    file_size, ffmpeg_runs >>
    /\ UNCHANGED outsideTranscode

\* ffprobe validation of temp_video
Ffprobe ==
    /\ x_pc = "ffprobe"
    /\ \E outcome \in FfprobeOutcomes :
        IF outcome = "invalid"
        THEN /\ temp_video' = FALSE
             /\ x_result' = "False"
             /\ x_pc' = "done"
             /\ UNCHANGED gif_cmd
        ELSE /\ gif_cmd' = GifCmd(is_hls, highlight_duration)
             /\ x_pc' = "encode"
             /\ UNCHANGED << temp_video, x_result >>
    /\ UNCHANGED << is_hls, highlight_duration, output_exists, file_size,
                    ffmpeg_runs >>
    /\ UNCHANGED outsideTranscode

\* the first ffmpeg run and the checks of its output
Encode ==
    /\ x_pc = "encode"
    /\ ffmpeg_runs' = ffmpeg_runs + 1
    /\ \E outcome \in FfmpegOutcomes, size \in FileSizes :
        IF outcome = "ok"
        THEN /\ output_exists' = TRUE
             /\ file_size' = size
             /\ IF TooLarge(size)
                THEN /\ x_pc' = "reencode"
                     /\ UNCHANGED << temp_video, x_result >>
                ELSE /\ x_result' = "True"
                     /\ temp_video' = FALSE
                     /\ x_pc' = "done"
        ELSE /\ x_result' = "False"
             /\ temp_video' = FALSE
             /\ x_pc' = "done"
             /\ UNCHANGED << output_exists, file_size >>
    /\ UNCHANGED << is_hls, highlight_duration, gif_cmd >>
    /\ UNCHANGED outsideTranscode

\* the second ffmpeg run, with the smaller settings: its size is measured
\* and logged, then True is returned
Reencode ==
    /\ x_pc = "reencode"
    /\ ffmpeg_runs' = ffmpeg_runs + 1
    /\ \E outcome \in FfmpegOutcomes \ {"no_output"}, size \in FileSizes :
        IF outcome = "ok"
        THEN /\ file_size' = size
             /\ x_result' = "True"
        ELSE /\ x_result' = "False"
             /\ UNCHANGED file_size
    /\ temp_video' = FALSE
    /\ x_pc' = "done"
    /\ UNCHANGED << is_hls, highlight_duration, gif_cmd, output_exists >>
    /\ UNCHANGED outsideTranscode

TranscodeReturn ==
    /\ x_pc = "done"
    /\ x_pc' = "idle"
    /\ is_hls' = FALSE
    /\ highlight_duration' = <<>>
    /\ gif_cmd' = <<>>
    /\ temp_video' = FALSE
    /\ output_exists' = FALSE
    /\ file_size' = 0
    /\ ffmpeg_runs' = 0
    /\ x_result' = "none"
    /\ UNCHANGED outsideTranscode

NextTranscode ==
    \/ download_and_convert_to_gif
    \/ HlsTest
    \/ Download
    \/ Ffprobe
    \/ Encode
    \/ Reencode
    \/ TranscodeReturn

SpecTranscode == Init /\ [][NextTranscode]_vars

\* ---------------------------------------------------------- Telegram bot
\* values of TELEGRAM_BOT_TOKEN and TELEGRAM_CHAT_ID: unset, empty, set
EnvValues == {"none", "", "123:abc"}

\* pitch_details: a non-empty dict or not; description: non-empty or not;
\* impact_score: a number or null
PlayFields ==
    [pitch_details : BOOLEAN, description : BOOLEAN,
     impact_score : {"number", "null"}]

GifPaths == {"none", "missing", "exists"}

\* how the POST ends: a status and body, or an exception of requests
PostOutcomes ==
    {"200_ok", "200_not_ok", "200_malformed", "400", "500", "timeout",
     "connection_error"}

\* is_configured: bool(self.bot_token and self.chat_id)
is_configured == bot_token \notin {"none", ""} /\ chat_id \notin {"none", ""}

\* `play_data.get('impact_score', 0) * 100` raises for a null score
MessageRaises(pd) == pd.impact_score = "null"

\* the message text: the pitch variant, or the regular one with or without
\* the description line
Message(pd) ==
    IF pd.pitch_details THEN << "event", "pitch_details", "batter", "pitcher" >>
    ELSE IF pd.description
    THEN << "event", "description", "matchup", "impact", "inning", "batter",
            "pitcher", "score" >>
    ELSE << "event", "matchup", "impact", "inning", "batter", "pitcher",
            "score" >>

\* `if gif_path and os.path.exists(gif_path)`
Endpoint(path) == IF path = "exists" THEN "sendAnimation" ELSE "sendMessage"

DeliveredAnyOk(outcome) == outcome \in {"200_ok", "200_not_ok"}

\* `response.status_code == 200` and `result.get('ok')`
Delivered(outcome) == outcome = "200_ok"

\* telegram_client = TelegramBot(): the constructor reads the environment
TelegramBot ==
    /\ g_pc = "unloaded"
    /\ \E token \in EnvValues, chat \in EnvValues :
        /\ bot_token' = token
        /\ chat_id' = chat
    /\ g_pc' = "idle"
    /\ UNCHANGED << play_data, gif_path, message, endpoint, requests,
                    response, g_result >>
    /\ UNCHANGED outsideTelegram

\* send_gif_notification(play_data, gif_path) up to its POST
send_gif_notification ==
    /\ g_pc = "idle"
    /\ \E pd \in PlayFields, path \in GifPaths :
        /\ play_data' = pd
        /\ gif_path' = path
        /\ IF ~ is_configured
           THEN /\ g_result' = "False"
                /\ g_pc' = "done"
                /\ UNCHANGED << message, endpoint >>
           ELSE IF MessageRaises(pd)
           THEN /\ g_result' = "False"
                /\ g_pc' = "done"
                /\ UNCHANGED << message, endpoint >>
           ELSE /\ message' = Message(pd)
                /\ endpoint' = Endpoint(path)
                /\ g_pc' = "post"
                /\ UNCHANGED g_result
    /\ UNCHANGED << bot_token, chat_id, requests, response >>
    /\ UNCHANGED outsideTelegram

\* requests.post to the Bot API and the reading of its response
Post ==
    /\ g_pc = "post"
    /\ requests' = requests + 1
    /\ \E outcome \in PostOutcomes :
        /\ response' = outcome
        /\ g_result' = IF Delivered(outcome) THEN "True" ELSE "False"
    /\ g_pc' = "done"
    /\ UNCHANGED << bot_token, chat_id, play_data, gif_path, message,
                    endpoint >>
    /\ UNCHANGED outsideTelegram

TelegramReturn ==
    /\ g_pc = "done"
    /\ g_pc' = "idle"
    /\ play_data' = NoPlayFields
    /\ gif_path' = "none"
    /\ message' = <<>>
    /\ endpoint' = "none"
    /\ requests' = 0
    /\ response' = "none"
    /\ g_result' = "none"
    /\ UNCHANGED << bot_token, chat_id >>
    /\ UNCHANGED outsideTelegram

NextTelegram ==
    \/ TelegramBot
    \/ send_gif_notification
    \/ Post
    \/ TelegramReturn

SpecTelegram == Init /\ [][NextTelegram]_vars

\* ------------------------------------------------------------------
\* manual_gif_dashboard.py: the games the dashboard holds
\* ------------------------------------------------------------------

MaxUpdates == 2         \* calls of update_games in one run
MaxGamesPerDay == 15    \* games on the schedule of one day

max_games == 20             \* `self.max_games = 20`
max_plays_per_game == 50    \* `self.max_plays_per_game = 50`

Days == {1, 2}
StartedCounts == {0, 1, MaxGamesPerDay}
FeedSizes == {0, 1, max_plays_per_game, max_plays_per_game + 1}

\* the schedule of day d when its first `started` games have begun and
\* the feed of each of them holds one play
DaySchedule(d, started) ==
    [i \in 1..MaxGamesPerDay |->
        [gamePk |-> (d - 1) * MaxGamesPerDay + i,
         statusCode |-> IF i <= started THEN "I" ELSE "S",
         plays |-> IF i <= started THEN 1 ELSE 0]]

\* what get_today_games returns: nothing, the schedule of a day, or one
\* game in progress whose feed holds `plays` plays
Schedules ==
    {<< >>}
    \cup {DaySchedule(d, started) : d \in Days, started \in StartedCounts}
    \cup {<< [gamePk |-> 1, statusCode |-> "I", plays |-> n] >> : n \in FeedSizes}

\* `plays` of update_games: the plays of the feed, atBatIndex 0..n-1, that
\* are not in processed_plays
NewPlays(processed, game_id, n) ==
    SelectSeq([i \in 1..n |-> i - 1],
              LAMBDA idx : << game_id, idx >> \notin processed)

\* `plays[-n:]`
LastN(plays, n) ==
    IF Len(plays) <= n THEN plays
    ELSE SubSeq(plays, Len(plays) - n + 1, Len(plays))

\* `min(self.games.keys(), key=lambda x: self.games[x].last_updated)`
Oldest(gs) ==
    CHOOSE id \in DOMAIN gs :
        \A other \in DOMAIN gs : gs[id].last_updated <= gs[other].last_updated

Put(gs, game_id, info) ==
    [id \in DOMAIN gs \cup {game_id} |-> IF id = game_id THEN info ELSE gs[id]]

Del(gs, game_id) == [id \in DOMAIN gs \ {game_id} |-> gs[id]]

\* `if len(self.games) > self.max_games`: one game is removed
Trim(gs) ==
    IF Cardinality(DOMAIN gs) > max_games THEN Del(gs, Oldest(gs)) ELSE gs

\* one pass of the loop of update_games over game_data
ProcessGame(st, game_data) ==
    LET game_id == game_data.gamePk
        tick == st.now + 1
        plays == NewPlays(st.processed_plays, game_id, game_data.plays)
    IN  IF game_data.statusCode = "S"
        THEN \* created or touched, then `continue`
             [games |->
                 Put(st.games, game_id,
                     [plays |-> IF game_id \in DOMAIN st.games
                                THEN st.games[game_id].plays ELSE << >>,
                      last_updated |-> tick]),
              processed_plays |-> st.processed_plays,
              now |-> tick]
        ELSE [games |->
                 Trim(Put(st.games, game_id,
                          [plays |-> IF game_id \in DOMAIN st.games
                                     THEN LastN(st.games[game_id].plays \o plays,
                                                max_plays_per_game)
                                     ELSE plays,
                           last_updated |-> tick])),
              processed_plays |->
                 st.processed_plays
                 \cup {<< game_id, plays[i] >> : i \in DOMAIN plays},
              now |-> tick]

RECURSIVE UpdateGames(_, _)
UpdateGames(st, games_data) ==
    IF games_data = << >> THEN st
    ELSE UpdateGames(ProcessGame(st, Head(games_data)), Tail(games_data))

\* start_monitoring(): a new thread unless the flag is set
start_monitoring ==
    /\ IF ~ monitoring /\ \E t \in Loops : loop_pc[t] = "unborn"
       THEN /\ monitoring' = TRUE
            /\ LET t == CHOOSE t \in Loops :
                            /\ loop_pc[t] = "unborn"
                            /\ \A u \in 1..(t - 1) : loop_pc[u] # "unborn"
               IN  loop_pc' = [loop_pc EXCEPT ![t] = "test"]
       ELSE /\ monitoring
            /\ UNCHANGED << monitoring, loop_pc >>
    /\ UNCHANGED << games, dashboard_plays, now, update_began, updates >>
    /\ UNCHANGED outsideDashboard

\* stop_monitoring()
stop_monitoring ==
    /\ monitoring' = FALSE
    /\ UNCHANGED << games, dashboard_plays, now, update_began, updates,
                    loop_pc >>
    /\ UNCHANGED outsideDashboard

\* `while self.monitoring` of _monitoring_loop, in thread t
LoopTest(t) ==
    /\ loop_pc[t] = "test"
    /\ loop_pc' = [loop_pc EXCEPT ![t] = IF monitoring THEN "update"
                                         ELSE "exited"]
    /\ UNCHANGED << games, dashboard_plays, now, update_began, updates,
                    monitoring >>
    /\ UNCHANGED outsideDashboard

\* the end of `time.sleep(self.update_interval)` in thread t
Wake(t) ==
    /\ loop_pc[t] = "sleep"
    /\ loop_pc' = [loop_pc EXCEPT ![t] = "test"]
    /\ UNCHANGED << games, dashboard_plays, now, update_began, updates,
                    monitoring >>
    /\ UNCHANGED outsideDashboard

\* update_games(), called by a thread of _monitoring_loop: the whole loop
\* over the schedule
update_games ==
    /\ updates < MaxUpdates
    /\ \E t \in Loops :
          /\ loop_pc[t] = "update"
          /\ loop_pc' = [loop_pc EXCEPT ![t] = "cleanup"]
    /\ \E games_data \in Schedules :
          LET st == UpdateGames([games |-> games,
                                 processed_plays |-> dashboard_plays,
                                 now |-> now], games_data)
          IN  /\ games' = st.games
              /\ dashboard_plays' = st.processed_plays
              /\ now' = st.now
    /\ update_began' = now
    /\ updates' = updates + 1
    /\ UNCHANGED monitoring
    /\ UNCHANGED outsideDashboard

\* cleanup_old_games(): the games last updated more than 24 hours ago go;
\* the ones the last update touched are younger than that
cleanup_old_games ==
    /\ \E t \in Loops :
          /\ loop_pc[t] = "cleanup"
          /\ loop_pc' = [loop_pc EXCEPT ![t] = "sleep"]
    /\ \E cutoff \in 0..update_began :
          games' = [id \in {g \in DOMAIN games :
                               games[g].last_updated > cutoff} |-> games[id]]
    /\ UNCHANGED << dashboard_plays, now, update_began, updates, monitoring >>
    /\ UNCHANGED outsideDashboard

NextDashboard ==
    \/ start_monitoring
    \/ stop_monitoring
    \/ \E t \in Loops : LoopTest(t)
    \/ update_games
    \/ cleanup_old_games
    \/ \E t \in Loops : Wake(t)

SpecDashboard == Init /\ [][NextDashboard]_vars

\* ------------------------------------------------------------------
\* mets_hr_tracker.py: the two threads of the tracker, statement by
\* statement where they share monitoring_active and recent_home_runs
\* ------------------------------------------------------------------

RecentLimit == 50      \* `if len(recent_hrs) > 50`

\* what the tracker leaves alone in every step of its threads
trackerGhosts == << t_pc, cycle_count, gif_files, evicted, enqueued,
                    last_attempt >>

\* start_mets_hr_tracker(): the tracker is constructed with an empty pickle
\* file, and its thread is started
StartCall ==
    /\ mets_hr_tracker = "None"
    /\ monitor_pc = "unborn"
    /\ mets_hr_tracker' = "tracker"
    /\ monitor_pc' = "begin"
    /\ UNCHANGED << hr_pc, recent_hrs, sent_home_run, appended >>
    /\ UNCHANGED << monitoring_active, processed_plays, home_run_queue,
                    game_plays, recent_home_runs, trackerGhosts >>
    /\ UNCHANGED outsideThreads

\* stop_mets_hr_tracker(): stop_monitoring(), then the global is None
StopCall ==
    /\ mets_hr_tracker = "tracker"
    /\ monitoring_active' = FALSE
    /\ mets_hr_tracker' = "None"
    /\ UNCHANGED << monitor_pc, hr_pc, recent_hrs, sent_home_run, appended >>
    /\ UNCHANGED << processed_plays, home_run_queue, game_plays,
                    recent_home_runs, trackerGhosts >>
    /\ UNCHANGED outsideThreads

\* a Mets batter homers while the threads run
HomeRunHit ==
    /\ monitor_pc # "unborn"
    /\ HomeRun

\* the thread of monitor_mets_home_runs begins: the flag is set and the
\* processing thread is started
MonitorBegin ==
    /\ monitor_pc = "begin"
    /\ monitoring_active' = TRUE
    /\ hr_pc' = "test"
    /\ monitor_pc' = "test"
    /\ UNCHANGED << mets_hr_tracker, recent_hrs, sent_home_run, appended >>
    /\ UNCHANGED << processed_plays, home_run_queue, game_plays,
                    recent_home_runs, trackerGhosts >>
    /\ UNCHANGED outsideThreads

\* `while self.monitoring_active` of the monitoring loop; the finally block
\* clears the flag when the loop is left
MonitorTest ==
    /\ monitor_pc = "test"
    /\ monitor_pc' = IF monitoring_active THEN "scan" ELSE "exited"
    /\ monitoring_active' = monitoring_active
    /\ UNCHANGED << mets_hr_tracker, hr_pc, recent_hrs, sent_home_run, appended >>
    /\ UNCHANGED << processed_plays, home_run_queue, game_plays,
                    recent_home_runs, trackerGhosts >>
    /\ UNCHANGED outsideThreads

\* the scan of one cycle: the home runs is_mets_home_run returns are marked
\* and queued
Scan ==
    /\ monitor_pc = "scan"
    /\ LET new_hrs == game_plays \ processed_plays
           queued == InGameOrder(new_hrs)
       IN  /\ processed_plays' = processed_plays \cup new_hrs
           /\ home_run_queue' = home_run_queue \o
                 [i \in 1..Len(queued) |-> [play_id |-> queued[i], attempts |-> 0]]
    /\ monitor_pc' = "save"
    /\ UNCHANGED << mets_hr_tracker, hr_pc, recent_hrs, sent_home_run, appended >>
    /\ UNCHANGED << monitoring_active, game_plays, recent_home_runs,
                    trackerGhosts >>
    /\ UNCHANGED outsideThreads

\* save_processed_plays up to line 161: the processed plays are cut, and
\* the recent home runs are read and filtered into recent_hrs (none of
\* them is seven days old)
SaveFilter ==
    /\ monitor_pc = "save"
    /\ \E kept \in Keeps(processed_plays) : processed_plays' = kept
    /\ recent_hrs' = LastN(recent_home_runs, RecentLimit)
    /\ monitor_pc' = "assign"
    /\ UNCHANGED << mets_hr_tracker, hr_pc, sent_home_run, appended >>
    /\ UNCHANGED << monitoring_active, home_run_queue, game_plays,
                    recent_home_runs, trackerGhosts >>
    /\ UNCHANGED outsideThreads

\* `self.recent_home_runs = recent_hrs`, the dump, and the sleep of the cycle
SaveAssign ==
    /\ monitor_pc = "assign"
    /\ recent_home_runs' = recent_hrs
    /\ monitor_pc' = "test"
    /\ UNCHANGED << mets_hr_tracker, hr_pc, recent_hrs, sent_home_run, appended >>
    /\ UNCHANGED << monitoring_active, processed_plays, home_run_queue,
                    game_plays, trackerGhosts >>
    /\ UNCHANGED outsideThreads

\* `while self.monitoring_active` of the processing loop
HrTest ==
    /\ hr_pc = "test"
    /\ hr_pc' = IF monitoring_active THEN "get" ELSE "exited"
    /\ UNCHANGED << mets_hr_tracker, monitor_pc, recent_hrs, sent_home_run,
                    appended >>
    /\ UNCHANGED << monitoring_active, processed_plays, home_run_queue,
                    game_plays, recent_home_runs, trackerGhosts >>
    /\ UNCHANGED outsideThreads

\* one pass of the processing loop up to the answer of
\* send_gif_notification
HrAttempt ==
    /\ hr_pc = "get"
    /\ IF home_run_queue = << >>
       THEN /\ hr_pc' = "test"
            /\ UNCHANGED << home_run_queue, sent_home_run >>
       ELSE LET hr == Head(home_run_queue)
                attempts == NextAttempts(hr.attempts)
            IN  IF hr.attempts >= MaxAttempts
                THEN /\ home_run_queue' = Tail(home_run_queue)
                     /\ hr_pc' = "test"
                     /\ UNCHANGED sent_home_run
                ELSE \E success \in BOOLEAN :
                     IF success
                     THEN /\ home_run_queue' = Tail(home_run_queue)
                          /\ sent_home_run' = hr.play_id
                          /\ hr_pc' = "append"
                     ELSE /\ home_run_queue' =
                               IF Requeue(attempts)
                               THEN Append(Tail(home_run_queue),
                                           [play_id |-> hr.play_id,
                                            attempts |-> attempts])
                               ELSE Tail(home_run_queue)
                          /\ hr_pc' = "test"
                          /\ UNCHANGED sent_home_run
    /\ UNCHANGED << mets_hr_tracker, monitor_pc, recent_hrs, appended >>
    /\ UNCHANGED << monitoring_active, processed_plays, game_plays,
                    recent_home_runs, trackerGhosts >>
    /\ UNCHANGED outsideThreads

\* `self.recent_home_runs.append(home_run)` and the rest of the pass
HrAppend ==
    /\ hr_pc = "append"
    /\ recent_home_runs' = Append(recent_home_runs, sent_home_run)
    /\ appended' = appended \cup {sent_home_run}
    /\ sent_home_run' = NoId
    /\ hr_pc' = "test"
    /\ UNCHANGED << mets_hr_tracker, monitor_pc, recent_hrs >>
    /\ UNCHANGED << monitoring_active, processed_plays, home_run_queue,
                    game_plays, trackerGhosts >>
    /\ UNCHANGED outsideThreads

MonitorThread ==
    MonitorBegin \/ MonitorTest \/ Scan \/ SaveFilter \/ SaveAssign

HrThread == HrTest \/ HrAttempt \/ HrAppend

NextThreads ==
    \/ StartCall
    \/ StopCall
    \/ HomeRunHit
    \/ MonitorThread
    \/ HrThread

\* a started thread that can take a step is scheduled in the end
SpecThreads ==
    Init /\ [][NextThreads]_vars
    /\ WF_vars(MonitorThread) /\ WF_vars(HrThread)


\* ------------------------------------------------------- shared notions
NumTemplates == 2

TemplateOrder == << "m3u8", "mp4" >>

\* requests of the longest attempt: the GET of the feed, one HEAD per
\* template, one request of the transcoder
MaxNetCalls == 1 + NumTemplates + 1

TargetPlay == all_plays[target_play].play

TargetSource == all_plays[target_play].source

HasClipId(i) == all_plays[i].play.play_id # NoId

StrictLevel == level \in {"preferred", "any"}

\* the lookup (get_baseball_savant_play_video or get_pitch_video_url) has
\* handed back its return value
LookupReturned ==
    \/ (op \in {"get_baseball_savant_play_video", "get_pitch_video_url"}
        /\ pc = "done")
    \/ (op = "create_gif_for_play" /\ pc = "orchestrate")

AllProbesFailed == \A j \in DOMAIN probes : probes[j].status # "200"

\* ----------------------------------------------------------------- claims
\* C1 (as stated): whenever the matcher of get_baseball_savant_play_video
\* has selected a candidate, that candidate has a clip id (play_id).
C1_SelectedHasClipId ==
    target_play # 0 => HasClipId(target_play)

\* C2 (as stated): a candidate selected by a strict pass (preferred
\* broadcast or any broadcast) has the inning of the target play.
C2_StrictSameInning ==
    StrictLevel => TargetPlay.inning = mlb_play_data.inning

\* C2 (amended): a candidate selected by a strict pass has the inning of the
\* target play, unless its play_id equals the requested play_id.
C2_StrictSameInningOrId ==
    StrictLevel =>
        \/ TargetPlay.inning = mlb_play_data.inning
        \/ TargetPlay.play_id = play_id

\* a strict pass skipped an entry of the preferred broadcast whose event
\* text matches but whose inning differs, and selected a later entry
C2_Witness ==
    /\ StrictLevel
    /\ target_play = 2
    /\ all_plays[1].source = selected_broadcast
    /\ all_plays[1].play.inning # mlb_play_data.inning
    /\ mlb_play_data.event # <<>>
    /\ Contains(LowerText(mlb_play_data.event),
                LowerText(all_plays[1].play.events))
    /\ TargetPlay.inning = mlb_play_data.inning
    /\ TargetPlay.play_id # play_id

\* C3: every URL a lookup returns was answered 200 by a HEAD probe of this
\* same call.
C3_ReturnedUrlProbed ==
    (LookupReturned /\ result # NoUrl) =>
        \E j \in DOMAIN probes :
            probes[j].url = result /\ probes[j].status = "200"

\* a lookup returned a URL after an earlier probe of the call had failed
C3_Witness ==
    /\ LookupReturned
    /\ result # NoUrl
    /\ Len(probes) = 2
    /\ probes[1].status = "non200"

\* C4: the templates are probed in the order .m3u8, .mp4 for one and the
\* same clip; no probe follows a 200; the URL answered 200 is returned.
C4_FirstSuccessInOrder ==
    templated =>
        /\ \A j \in DOMAIN probes :
            /\ j <= NumTemplates
            /\ probes[j].url[1] = "clip"
            /\ probes[j].url[4] = TemplateOrder[j]
            /\ probes[j].url[2] = probes[1].url[2]
            /\ probes[j].url[3] = probes[1].url[3]
            /\ (j < Len(probes) => probes[j].status # "200")
        /\ \A k \in DOMAIN probes :
            probes[k].status = "200" =>
                /\ Len(probes) = k
                /\ LookupReturned \/ pc \in {"transcode", "done"}
                /\ LookupReturned => result = probes[k].url

\* the second template was the first to succeed: two probes, .mp4 returned
C4_Witness ==
    /\ LookupReturned
    /\ templated
    /\ Len(probes) = 2
    /\ probes[1].status # "200"
    /\ probes[2].status = "200"
    /\ result = probes[2].url
    /\ result[4] = "mp4"

\* C5: when every probe of the templated URLs fails, the lookup returns
\* None after exactly one probe per template.
C5_AllFailOneProbeEach ==
    (templated /\ LookupReturned /\ AllProbesFailed) =>
        /\ result = NoUrl
        /\ Len(probes) = NumTemplates
        /\ \A i, j \in DOMAIN probes : i # j => probes[i].url # probes[j].url
        /\ { probes[j].url[4] : j \in DOMAIN probes } =
           { TemplateOrder[j] : j \in 1..NumTemplates }

\* both templates were probed, one raised and one answered non-200
C5_Witness ==
    /\ templated
    /\ LookupReturned
    /\ result = NoUrl
    /\ Len(probes) = 2
    /\ probes[1].status = "exception"
    /\ probes[2].status = "non200"

\* C6: a candidate of the any-broadcast level is selected only if the
\* preferred broadcast has no match, and the first available play only if
\* no candidate matches at all (or there is no play data to match on).
C6_StrictestLevelFirst ==
    /\ level = "preferred" =>
        /\ BroadcastOk(selected_broadcast, TargetSource)
        /\ PlayMatches(TargetPlay, play_id, mlb_play_data)
    /\ level = "any" =>
        /\ PlayMatches(TargetPlay, play_id, mlb_play_data)
        /\ \A i \in DOMAIN all_plays :
            ~ (BroadcastOk(selected_broadcast, all_plays[i].source)
               /\ PlayMatches(all_plays[i].play, play_id, mlb_play_data))
    /\ (level = "first" /\ mlb_play_data.present) =>
        \A i \in DOMAIN all_plays :
            ~ PlayMatches(all_plays[i].play, play_id, mlb_play_data)

\* the preferred broadcast had an entry but no match, and the match of the
\* other broadcast was selected
C6_Witness ==
    /\ level = "any"
    /\ target_play = 2
    /\ all_plays[1].source = selected_broadcast
    /\ TargetSource # selected_broadcast

\* C7 (as stated): the final fallback selects the first candidate that has
\* a clip id; if any candidate has one, a candidate with a clip id is
\* selected and the resolver is tried on it.
C7_FallbackFirstWithClip ==
    /\ level = "first" =>
        /\ HasClipId(target_play)
        /\ \A i \in 1..(target_play - 1) : ~ HasClipId(i)
    /\ (\E i \in DOMAIN all_plays : HasClipId(i)) =>
        /\ target_play # 0
        /\ HasClipId(target_play)
        /\ video_urls # <<>>

\* C8 (as stated): if every candidate lacks a clip id, no candidate is
\* selected, no HEAD probe is issued and the lookup returns None.
C8_NoClipNoProbe ==
    (all_plays # <<>> /\ \A i \in DOMAIN all_plays : ~ HasClipId(i)) =>
        /\ target_play = 0
        /\ probes = <<>>
        /\ LookupReturned => result = NoUrl

\* C9 (as stated): when create_gif_for_play ends and the primary lookup
\* gave no clip, the secondary lookup (get_game_highlights) has been called.
C9_SecondaryAfterPrimary ==
    (op = "create_gif_for_play" /\ pc = "done"
     /\ calls \cap {"download_and_convert_to_gif",
                    "download_and_convert_to_video"} = {}) =>
        "get_game_highlights" \in calls

\* steps a call can still take before it has returned
Rank ==
    CASE pc = "idle" -> 0
      [] pc = "done" -> 1
      [] pc = "transcode" -> 2
      [] pc = "orchestrate" -> 3
      [] pc = "probe" -> 4 + (Len(video_urls) - next_url)
      [] pc = "fetch" -> 4 + NumTemplates

\* C10: a resolution attempt issues at most MaxNetCalls requests, is never
\* blocked before it has returned, and every step brings it closer to its
\* return (Rank decreases): it cannot loop.
C10_BoundedAttempt ==
    /\ [](netCalls <= MaxNetCalls)
    /\ [](pc # "idle" => ENABLED Next)
    /\ [][pc # "idle" => Rank' < Rank]_vars

\* the longest attempt: feed fetched, first probe failed, second succeeded,
\* transcoder ran
C10_Witness ==
    /\ op = "create_gif_for_play"
    /\ pc = "done"
    /\ netCalls = MaxNetCalls
    /\ Len(probes) = NumTemplates

\* C11: when the GET of the feed fails (non-200, malformed JSON, request
\* exception) or the payload has no candidates, the primary lookup returns
\* None normally and has issued no clip probe.
C11_FailedFetchNoProbe ==
    (/\ op \in {"get_baseball_savant_play_video", "create_gif_for_play"}
     /\ \/ fetch_status \in {"non200", "malformed", "exception"}
        \/ (fetch_status = "ok" /\ all_plays = <<>>)) =>
        /\ pc \in {"orchestrate", "done"}
        /\ result = NoUrl
        /\ probes = <<>>
        /\ video_urls = <<>>
        /\ netCalls = 1

\* the feed answered with a non-200 status and the lookup has returned
C11_Witness ==
    /\ op = "get_baseball_savant_play_video"
    /\ fetch_status = "non200"
    /\ pc = "done"
    /\ result = NoUrl

\* score of highlight i of the current call of find_matching_highlight
HighlightScore(i) == Score(highlights[i], highlight_play_data)

\* the call of find_matching_highlight went through its scoring loop
Scored ==
    /\ m_pc = "highlight"
    /\ highlights # <<>>
    /\ highlight_play_data.present
    /\ ~ Raises(highlights)

\* C12: the selection is a function of the target and the ordered list, and
\* among the candidates that tie for best the first listed is selected: the
\* highlight returned has the highest score and every highlight listed before
\* it scores strictly less; a Savant play selected by a strict pass has no
\* matching play of that pass listed before it; with nothing to select from
\* the outcome is None.
C12_FirstListedAmongBest ==
    /\ (Scored /\ \E i \in DOMAIN highlights : HighlightScore(i) > 0) =>
          /\ best_highlight \in DOMAIN highlights
          /\ \A j \in DOMAIN highlights :
                HighlightScore(j) <= HighlightScore(best_highlight)
          /\ \A j \in 1..(best_highlight - 1) :
                HighlightScore(j) < HighlightScore(best_highlight)
    /\ (m_pc = "highlight" /\ highlights = <<>>) => best_highlight = 0
    /\ (m_pc = "savant" /\ level = "preferred") =>
          \A j \in 1..(target_play - 1) :
              ~ (/\ BroadcastOk(selected_broadcast, all_plays[j].source)
                 /\ PlayMatches(all_plays[j].play, play_id, mlb_play_data))
    /\ (m_pc = "savant" /\ level = "any") =>
          \A j \in 1..(target_play - 1) :
              ~ PlayMatches(all_plays[j].play, play_id, mlb_play_data)
    /\ (m_pc = "savant" /\ all_plays = <<>>) => target_play = 0

C12_Witness ==
    /\ Scored
    /\ \E i, j \in DOMAIN highlights :
          /\ i < j
          /\ highlights[i] # highlights[j]
          /\ HighlightScore(i) = HighlightScore(j)
          /\ HighlightScore(i) > 0
          /\ \A k \in DOMAIN highlights : HighlightScore(k) <= HighlightScore(i)
          /\ best_highlight = i

\* C13 (as stated): when a contact pitch with a clip id is among the
\* candidates of the target's inning, the candidate selected is a contact
\* pitch.
C13_ContactPitchSelected ==
    (/\ m_pc = "savant"
     /\ mlb_play_data.present
     /\ \E i \in DOMAIN all_plays :
           /\ is_contact_pitch[i]
           /\ HasClipId(i)
           /\ all_plays[i].play.inning = mlb_play_data.inning) =>
        /\ target_play # 0
        /\ is_contact_pitch[target_play]

\* C14 (as stated): when no highlight obtains a positive score the scorer
\* returns None.
C14_NoPositiveScoreNone ==
    (/\ Scored
     /\ \A i \in DOMAIN highlights : HighlightScore(i) = 0) =>
        best_highlight = 0

\* C14 (amended): None is returned exactly for an empty list; a highlight of
\* score 0 is returned only when no highlight scored, and it is then the first
\* of the list; without play data, or when the scoring raised, the first
\* highlight is returned.
C14_ZeroScoreOnlyAsFallback ==
    m_pc = "highlight" =>
        /\ best_highlight = 0 <=> highlights = <<>>
        /\ (Scored /\ HighlightScore(best_highlight) = 0) =>
              /\ best_highlight = 1
              /\ \A j \in DOMAIN highlights : HighlightScore(j) = 0
        /\ (highlights # <<>> /\ ~ Scored) => best_highlight = 1

C14_Witness ==
    /\ Scored
    /\ Len(highlights) >= 2
    /\ \A j \in DOMAIN highlights : HighlightScore(j) = 0
    /\ best_highlight = 1

\* an id loaded from the pickle file entered processed_plays at
\* construction, before every home run a cycle has marked
InsertedAt(id) == IF id \in LoadedIds THEN 0 ELSE 1

\* the processing thread has taken a step: the queue changed and no cycle ran
ProcessingStep ==
    /\ home_run_queue' # home_run_queue
    /\ cycle_count' = cycle_count

\* the last attempt ended without a delivered clip and its home run has left
\* the queue
EndedWithoutClip ==
    /\ last_attempt.play_id # NoId
    /\ ~ (last_attempt.success /\ last_attempt.gif)
    /\ \A i \in DOMAIN home_run_queue :
          home_run_queue[i].play_id # last_attempt.play_id

\* C15 (as stated): a home run is queued by the monitoring cycles at most
\* once.
C15_EnqueuedAtMostOnce ==
    \A id \in HomeRunIds : enqueued[id] <= 1

\* C16 (as stated): no id dropped by save_processed_plays was inserted later
\* than an id it kept.
C16_OldestEvictedFirst ==
    \A e \in evicted : \A r \in processed_plays : InsertedAt(e) <= InsertedAt(r)

\* C17 (as stated): when a pass of the processing thread has ended, no clip
\* file generated for a home run is left in temp_dir.
C17_NoClipFileLeft ==
    gif_files = {}

\* C19 (as stated): a home run whose attempt ended without a delivered clip
\* and that is no longer queued can be detected by a later cycle, that is,
\* its id is not in processed_plays.
C19_FailedPlayDetectedAgain ==
    EndedWithoutClip => last_attempt.play_id \notin processed_plays

\* C19 (amended): a cycle queues only home runs whose id is not in
\* processed_plays; the processing thread puts a home run back on the queue
\* exactly when the send failed and fewer than MaxAttempts attempts were
\* made, and otherwise the home run leaves the queue.
C19_RetryByRequeueOnly ==
    [][/\ \A id \in HomeRunIds :
             enqueued'[id] # enqueued[id] => id \notin processed_plays
       /\ ProcessingStep =>
             LET a == last_attempt'
             IN  /\ a.play_id = Head(home_run_queue).play_id
                 /\ a.attempts = Head(home_run_queue).attempts + 1
                 /\ home_run_queue' =
                       IF ~ a.success /\ a.attempts < MaxAttempts
                       THEN Append(Tail(home_run_queue),
                                   [play_id |-> a.play_id, attempts |-> a.attempts])
                       ELSE Tail(home_run_queue)]_vars

C19_Witness ==
    /\ ~ last_attempt.success
    /\ last_attempt.attempts >= 1
    /\ \E i \in DOMAIN home_run_queue :
          /\ home_run_queue[i].play_id = last_attempt.play_id
          /\ home_run_queue[i].attempts = last_attempt.attempts
    /\ last_attempt.play_id \in processed_plays
    /\ cycle_count >= 2

\* C18 (as stated): download_and_convert_to_gif returns True only if the
\* file it leaves in output_path is within the size budget.
C18_SuccessWithinBudget ==
    (x_pc = "done" /\ x_result = "True") => file_size <= SizeLimit

\* C20: send_gif_notification returns True only after one POST that was
\* answered with status 200 and ok = true; when the bot is not configured it
\* returns False and has issued no request; after any other answer, a
\* request exception or an exception while building the message it returns
\* False, and every call returns True or False.
C20_TrueOnlyWhenConfirmed ==
    /\ g_result = "True" =>
          /\ response = "200_ok"
          /\ requests = 1
          /\ is_configured
    /\ (g_pc = "done" /\ ~ is_configured) =>
          /\ g_result = "False"
          /\ requests = 0
    /\ (g_pc = "done" /\ response \notin {"none", "200_ok"}) =>
          g_result = "False"
    /\ (g_pc = "done" /\ MessageRaises(play_data)) => g_result = "False"
    /\ g_pc = "done" => g_result \in {"True", "False"}

C20_Witness ==
    /\ g_pc = "done"
    /\ g_result = "True"
    /\ response = "200_ok"
    /\ endpoint = "sendAnimation"
    /\ message # <<>>

\* C21 (as stated): no home run has had more than MaxAttempts attempts, and
\* a home run that was sent is neither waiting in the queue nor sent a second
\* time.
C21_SentOnceWithinAttempts ==
    /\ \A i \in DOMAIN home_run_queue : home_run_queue[i].attempts <= MaxAttempts
    /\ last_attempt.attempts <= MaxAttempts
    /\ \A i, j \in DOMAIN recent_home_runs :
          i # j => recent_home_runs[i] # recent_home_runs[j]
    /\ \A i \in DOMAIN recent_home_runs : \A j \in DOMAIN home_run_queue :
          home_run_queue[j].play_id # recent_home_runs[i]

RECURSIVE AttemptsLeft(_)
\* attempts the entries of a queue can still get
AttemptsLeft(q) ==
    IF q = <<>> THEN 0
    ELSE (MaxAttempts - Head(q).attempts) + AttemptsLeft(Tail(q))

\* C22: while monitoring is active a waiting home run can always be
\* processed, every pass of the processing thread lowers the number of
\* attempts the queue can still get, no entry waits with MaxAttempts attempts
\* made, and an entry that leaves the queue was sent (appended to
\* recent_home_runs) or has failed for the MaxAttempts-th time: no home run
\* is requeued forever.
C22_QueueDrains ==
    /\ [](\A i \in DOMAIN home_run_queue :
              home_run_queue[i].attempts < MaxAttempts)
    /\ []((t_pc = "running" /\ monitoring_active /\ home_run_queue # <<>>) =>
              ENABLED process_home_run_queue)
    /\ [][ProcessingStep =>
             /\ AttemptsLeft(home_run_queue') < AttemptsLeft(home_run_queue)
             /\ Len(home_run_queue') < Len(home_run_queue) =>
                   \/ recent_home_runs' =
                          Append(recent_home_runs, Head(home_run_queue).play_id)
                   \/ (/\ ~ last_attempt'.success
                       /\ last_attempt'.attempts = MaxAttempts
                       /\ recent_home_runs' = recent_home_runs)]_vars

C22_Witness ==
    /\ monitoring_active
    /\ home_run_queue = <<>>
    /\ ~ last_attempt.success
    /\ last_attempt.attempts = MaxAttempts
    /\ recent_home_runs # <<>>

\* C23: after every update_games call the dashboard holds at most
\* max_games games.
C23_AtMostMaxGames == Cardinality(DOMAIN games) <= max_games

\* C24: every game the dashboard holds has at most max_plays_per_game
\* plays at all times.
C24_AtMostMaxPlays ==
    \A id \in DOMAIN games : Len(games[id].plays) <= max_plays_per_game

\* C25: a highlight duration d with 0 < d <= 15 changes the ffmpeg
\* argument list only in the value that follows '-t', which becomes d;
\* every other argument is the default one, and without such a duration
\* the whole list is the default one.
C25_OnlyDurationValueChanges ==
    gif_cmd # << >> =>
        LET base == IF is_hls THEN HlsCmd ELSE DirectCmd
            d == ParseDuration(highlight_duration)
        IN  /\ Len(gif_cmd) = Len(base)
            /\ \A i \in DOMAIN base :
                  gif_cmd[i] = IF Override(d) /\ i > 1 /\ base[i - 1] = "-t"
                               THEN ToString(d.seconds)
                               ELSE base[i]

\* a candidate of the preferred broadcast that a strict pass accepts
PreferredMatch(i) ==
    /\ mlb_play_data.present
    /\ all_plays[i].source = selected_broadcast
    /\ PlayMatches(all_plays[i].play, play_id, mlb_play_data)

\* C26: _determine_broadcast_preference returns 'home' or 'away' ('home'
\* and 'away' as requested; 'auto' and 'mets' the side of the Mets, else
\* 'home'); a strict match of the preferred broadcast is selected even when
\* a match of the other broadcast comes earlier in all_plays, and a
\* candidate of the other broadcast is selected only when the preferred
\* broadcast has no strict match.
C26_PreferredBroadcastFirst ==
    /\ \A p \in Preferences, homeMets \in BOOLEAN, awayMets \in BOOLEAN :
          LET r == _determine_broadcast_preference(p, homeMets, awayMets)
          IN  /\ r \in Sources
              /\ p \in Sources => r = p
              /\ p \in {"auto", "mets"} =>
                    r = IF homeMets THEN "home"
                        ELSE IF awayMets THEN "away" ELSE "home"
    /\ selected_broadcast # "none" => selected_broadcast \in Sources
    /\ (\E i \in DOMAIN all_plays : PreferredMatch(i)) =>
          /\ level = "preferred"
          /\ PreferredMatch(target_play)
          /\ \A i \in 1..(target_play - 1) : ~ PreferredMatch(i)
    /\ (target_play # 0 /\ TargetSource # selected_broadcast) =>
          \A i \in DOMAIN all_plays : ~ PreferredMatch(i)

\* the away broadcast is preferred; the home entry, earlier in all_plays,
\* matches too, and the away entry is the one selected
C26_Witness ==
    /\ selected_broadcast = "away"
    /\ target_play = 2
    /\ level = "preferred"
    /\ all_plays[1].source = "home"
    /\ PlayMatches(all_plays[1].play, play_id, mlb_play_data)
    /\ TargetSource = "away"

\* C28: there are never two threads of _monitoring_loop that have passed
\* `while self.monitoring` and are calling update_games.
C28_AtMostOneLoop ==
    Cardinality({t \in Loops : loop_pc[t] = "update"}) <= 1

\* C27: a home run the processing thread has appended to
\* recent_home_runs after a successful send is still in the list (no home
\* run of the model is old enough, and there are fewer than 50 of them).
C27_SentHomeRunKept ==
    \A id \in appended :
        \E i \in DOMAIN recent_home_runs : recent_home_runs[i] = id

\* stop_mets_hr_tracker() has returned for the tracker that was started
Stopped == mets_hr_tracker = "None" /\ monitor_pc # "unborn"

\* C29: after stop_mets_hr_tracker() has returned, the monitoring loop and
\* the processing thread of the stopped tracker exit in the end.
C29_StoppedTrackerCeases ==
    Stopped ~> (monitor_pc = "exited" /\ hr_pc \in {"unborn", "exited"})

====
